---- MODULE Spec2Model ----
(***************************************************************************)
(* Verification model of selected n8n components:                          *)
(*   - FileUploadController.uploadFile            (file-upload module)     *)
(*   - ChatHubExecutionWatcherService             (chat hub)               *)
(*   - useWorkflowSetupState                      (editor-ui setup panel)  *)
(*   - AuditLogService.getEvents                  (log streaming)          *)
(*   - createIntrospectionCollector               (ai-workflow-builder)    *)
(*   - ProxyServer.loadExpectations               (playwright services)    *)
(*   - withTimeout                                (evaluation harness)     *)
(*   - getCredentialSynchableData, merge, hasOwnerChanged (source control) *)
(* Each component has its own variables, initial condition, next-state     *)
(* relation and specification; the other components stay quiet.            *)
(***************************************************************************)
EXTENDS Integers, Sequences, FiniteSets, TLC

VARIABLES
    upReq,        \* upload: request id -> the request (fileUploadError, file)
    upPc,         \* upload: request id -> position of uploadFile for that request
    upLog,        \* upload: request id -> calls made for it, in order
    upOut,        \* upload: request id -> what uploadFile returned or threw
    tmpFiles,     \* upload: temp files present in the upload directory
    chCfg,        \* chat hub: executionsConfig.mode and the context's responseMode
    chStore,      \* chat hub: ChatHubExecutionStore entry of the execution
    chExec,       \* chat hub: the workflow execution (status, waits, resumptions)
    chAfter,      \* chat hub: instance -> its handleWorkflowExecuteAfter call
    chResume,     \* chat hub: event number -> its handleExecutionResumed call
    chNotifs,     \* chat hub: startExecution/startStream calls, in order
    chStats,      \* chat hub: who read the store, who acted, marks, endExecution calls of the event
    stNodes,      \* setup panel: node id -> the workflow node (sourceNodes)
    stTracked,    \* setup panel: trackedNodes, node id -> credential types
    auRows,       \* audit log: the rows of the audit_log table
    auCall,       \* audit log: the getEvents call (filter, find options, result)
    coCollected,  \* introspection collector: the buffer `collected`
    coDrains,     \* introspection collector: what each drain() returned, in order
    coLog,        \* introspection collector: the calls made so far, in order
    pxDir,        \* proxy server: the files of the expectations folder
    pxOpts,       \* proxy server: loadExpectations options
    pxRun,        \* proxy server: loadExpectations' position, jsonFiles, i, expectations
    pxLoaded,     \* proxy server: what client.mockAnyResponse received
    wtCalls,      \* withTimeout: call id -> args, promise, timer, position, outcome
    scLocal,      \* source control: the local credential's decrypted data
    scRemote,     \* source control: the credential data in the remote file
    scPhase,      \* source control: what was done last (export, remote change, import)
    owCall        \* source control: the hasOwnerChanged call (owners, result)

Null == "null"

upVars == <<upReq, upPc, upLog, upOut, tmpFiles>>

chVars == <<chCfg, chStore, chExec, chAfter, chResume, chNotifs, chStats>>

stVars == <<stNodes, stTracked>>

vars == <<upReq, upPc, upLog, upOut, tmpFiles,
          chCfg, chStore, chExec, chAfter, chResume, chNotifs, chStats,
          stNodes, stTracked, auRows, auCall,
          coCollected, coDrains, coLog,
          pxDir, pxOpts, pxRun, pxLoaded,
          wtCalls, scLocal, scRemote, scPhase, owCall>>

wtVars == <<wtCalls>>

scVars == <<scLocal, scRemote, scPhase>>

owVars == <<owCall>>

pxVars == <<pxDir, pxOpts, pxRun, pxLoaded>>

coVars == <<coCollected, coDrains, coLog>>

auVars == <<auRows, auCall>>

\* The state of a component while another component's specification runs.
UpQuiet ==
    /\ upReq = <<>>
    /\ upPc = <<>>
    /\ upLog = <<>>
    /\ upOut = <<>>
    /\ tmpFiles = {}

ChQuiet ==
    /\ chCfg = <<>>
    /\ chStore = <<>>
    /\ chExec = <<>>
    /\ chAfter = <<>>
    /\ chResume = <<>>
    /\ chNotifs = <<>>
    /\ chStats = <<>>

StQuiet ==
    /\ stNodes = <<>>
    /\ stTracked = <<>>

AuQuiet ==
    /\ auRows = {}
    /\ auCall = <<>>

CoQuiet ==
    /\ coCollected = <<>>
    /\ coDrains = <<>>
    /\ coLog = <<>>

WtQuiet == wtCalls = <<>>

ScQuiet ==
    /\ scLocal = <<>>
    /\ scRemote = <<>>
    /\ scPhase = "quiet"

OwQuiet == owCall = <<>>

PxQuiet ==
    /\ pxDir = {}
    /\ pxOpts = <<>>
    /\ pxRun = <<>>
    /\ pxLoaded = <<>>

(***************************************************************************)
(* FileUploadController.uploadFile                                         *)
(***************************************************************************)

\* Number of upload requests in flight at once.
MaxReq == 2

Requests == 1..MaxReq

\* The errors the multer middleware may leave in req.fileUploadError.
MulterErr == [class |-> "MulterError", message |-> <<"File too large">>]
BadReqErr == [class |-> "BadRequestError", message |-> <<"Custom validation failed">>]
OtherErr == [class |-> "Error", message |-> <<"something unexpected">>]
StoreErr == [class |-> "Error", message |-> <<"Store failed">>]
UnlinkErr == [class |-> "Error", message |-> <<"ENOENT">>]

\* req.fileUploadError left undefined.
NoErr == [class |-> "none", message |-> <<>>]

UploadErrors == {MulterErr, BadReqErr, OtherErr}

\* uploadFile has neither returned nor thrown yet.
NoOutcome == [kind |-> "none"]

\* req.file.path of request r (multer names each temp file uniquely).
TempPath(r) == r

BadRequestError(msg) == [class |-> "BadRequestError", message |-> msg]

\* The error branch without the BadRequestError case.
UploadErrorThrownNoRethrow(e) ==
    IF e.class = "MulterError" THEN BadRequestError(<<"File upload error: ">> \o e.message)
    ELSE BadRequestError(<<"File upload failed">>)

\* The error thrown for a request carrying fileUploadError e.
UploadErrorThrown(e) ==
    IF e.class = "MulterError" THEN BadRequestError(<<"File upload error: ">> \o e.message)
    ELSE IF e.class = "BadRequestError" THEN e
    ELSE BadRequestError(<<"File upload failed">>)

\* The metadata returned after a successful store.
UploadMetadata(r) == [fileId |-> <<"binary", r>>, fileName |-> <<"name", r>>]

\* The file is kept apart from the error: multer may set both.
UploadRequests == [err : UploadErrors \cup {NoErr}, file : BOOLEAN]

UpInit ==
    /\ upReq = [r \in Requests |-> [err |-> NoErr, file |-> FALSE]]
    /\ upPc = [r \in Requests |-> "new"]
    /\ upLog = [r \in Requests |-> <<>>]
    /\ upOut = [r \in Requests |-> NoOutcome]
    /\ tmpFiles = {}

\* A finally block without the .catch: an unlink failure replaces the outcome.
FinallyOutcomeNoCatch(tryOutcome, unlinkOk) ==
    IF unlinkOk THEN tryOutcome ELSE [kind |-> "throw", error |-> UnlinkErr]

\* What uploadFile's finally block yields once unlink(tempPath) has settled:
\* .catch(() => {}) swallows an unlink failure, so the try block's outcome stands.
FinallyOutcome(tryOutcome, unlinkOk) == tryOutcome

\* uploadFile up to its first await: the error checks, then the store call.
UploadStart(r, req) ==
    /\ upPc[r] = "new"
    /\ upReq' = [upReq EXCEPT ![r] = req]
    /\ tmpFiles' = IF req.file THEN tmpFiles \cup {TempPath(r)} ELSE tmpFiles
    /\ IF req.err # NoErr
       THEN /\ upOut' = [upOut EXCEPT ![r] = [kind |-> "throw", error |-> UploadErrorThrown(req.err)]]
            /\ upPc' = [upPc EXCEPT ![r] = "done"]
            /\ UNCHANGED upLog
       ELSE IF ~req.file
       THEN /\ upOut' = [upOut EXCEPT ![r] = [kind |-> "throw", error |-> BadRequestError(<<"No file uploaded">>)]]
            /\ upPc' = [upPc EXCEPT ![r] = "done"]
            /\ UNCHANGED upLog
       ELSE /\ upLog' = [upLog EXCEPT ![r] = Append(@, "store")]
            /\ upPc' = [upPc EXCEPT ![r] = "storing"]
            /\ UNCHANGED upOut

\* binaryDataService.store settles; the finally block calls unlink(tempPath).
UploadStoreSettles(r, ok) ==
    /\ upPc[r] = "storing"
    /\ upLog' = [upLog EXCEPT ![r] = @ \o <<IF ok THEN "storeResolved" ELSE "storeRejected", "unlink">>]
    /\ upOut' = [upOut EXCEPT ![r] =
                    IF ok THEN [kind |-> "return", value |-> UploadMetadata(r)]
                    ELSE [kind |-> "throw", error |-> StoreErr]]
    /\ upPc' = [upPc EXCEPT ![r] = "unlinking"]
    /\ UNCHANGED <<upReq, tmpFiles>>

\* unlink settles (it may fail); uploadFile returns or throws.
UploadUnlinkSettles(r, ok) ==
    /\ upPc[r] = "unlinking"
    /\ tmpFiles' = IF ok THEN tmpFiles \ {TempPath(r)} ELSE tmpFiles
    /\ upOut' = [upOut EXCEPT ![r] = FinallyOutcome(@, ok)]
    /\ upPc' = [upPc EXCEPT ![r] = "done"]
    /\ UNCHANGED <<upReq, upLog>>

\* The variables of the other components.
upOthers == <<chVars, stVars, auVars, coVars, pxVars,
             wtVars, scVars, owVars>>

UpNext ==
    \/ \E r \in Requests, req \in UploadRequests : UploadStart(r, req) /\ UNCHANGED upOthers
    \/ \E r \in Requests, ok \in BOOLEAN : UploadStoreSettles(r, ok) /\ UNCHANGED upOthers
    \/ \E r \in Requests, ok \in BOOLEAN : UploadUnlinkSettles(r, ok) /\ UNCHANGED upOthers

(***************************************************************************)
(* ChatHubExecutionWatcherService                                          *)
(***************************************************************************)

\* Number of times the execution may enter the waiting state.
MaxWaits == 1

\* Number of execution-resumed events delivered over the run.
MaxResumeEvents == 2

Instances == {"main", "worker"}

\* The instances that receive an execution's lifecycle events in a mode.
InstancesOf(mode) == IF mode = "queue" THEN {"main", "worker"} ELSE {"main"}

IsWorker(inst) == inst = "worker"

NoCtx == [present |-> FALSE, isResuming |-> FALSE, messageId |-> 0, previousMessageId |-> 0]

IdleAfter == [pc |-> "idle", status |-> "none", finished |-> FALSE, ctx |-> NoCtx, newId |-> 0]

IdleResume == [pc |-> "idle", cycle |-> 0, ctx |-> NoCtx, tracked |-> FALSE,
               messageId |-> 0, previousMessageId |-> 0]

ChInit ==
    /\ chCfg \in [mode : {"regular", "queue"}, responseMode : {"responseNodes", "lastNode"}]
    /\ chStore \in {NoCtx, [present |-> TRUE, isResuming |-> FALSE, messageId |-> 1,
                            previousMessageId |-> 0]}
    /\ chExec = [status |-> "running", auto |-> FALSE, waits |-> 0, resumed |-> FALSE]
    /\ chAfter = [i \in Instances |-> IdleAfter]
    /\ chResume = [h \in 1..MaxResumeEvents |-> IdleResume]
    /\ chNotifs = <<>>
    /\ chStats = [readers |-> {}, actors |-> {}, marks |-> 0, ends |-> 0, nextId |-> 2]

\* A guard that lets every instance process the event.
SkipsNever(mode, inst) == FALSE

\* The guard of handleWorkflowExecuteAfter: main skips the event in queue mode.
SkipsExecuteAfter(mode, inst) == mode = "queue" /\ ~IsWorker(inst)

\* Whether handleWaitingExecution auto-resumes: responseNodes mode, the execution
\* is found and its last node resumes immediately.
AutoResumes(responseMode, exec) == responseMode = "responseNodes" /\ exec.auto

\* The execution run ends and workflowExecuteAfter is delivered to every instance.
ExecutionEnds(status, finished, auto) ==
    /\ chExec.status = "running"
    /\ \A i \in Instances : chAfter[i].pc = "idle"
    /\ status = "waiting" => chExec.waits < MaxWaits
    /\ finished => status = "success"
    /\ auto => status = "waiting"
    /\ chExec' = [status |-> IF status = "waiting" THEN "waiting" ELSE "ended",
                  auto |-> auto,
                  waits |-> IF status = "waiting" THEN chExec.waits + 1 ELSE chExec.waits,
                  resumed |-> FALSE]
    /\ chAfter' = [i \in Instances |->
                     IF i \in InstancesOf(chCfg.mode)
                     THEN [pc |-> "start", status |-> status, finished |-> finished,
                           ctx |-> NoCtx, newId |-> 0]
                     ELSE chAfter[i]]
    /\ chStats' = [chStats EXCEPT !.ends = 0]
    /\ UNCHANGED <<chCfg, chStore, chResume, chNotifs>>

\* The lowest unused handleExecutionResumed call.
FreeResume == CHOOSE h \in 1..MaxResumeEvents :
                 /\ chResume[h].pc = "idle"
                 /\ \A g \in 1..MaxResumeEvents : g < h => chResume[g].pc # "idle"

HasFreeResume == \E h \in 1..MaxResumeEvents : chResume[h].pc = "idle"

\* eventService.on('execution-resumed'): a handler call starts for the event.
EmitResumed ==
    [chResume EXCEPT ![FreeResume] =
        [pc |-> "get", cycle |-> chExec.waits, ctx |-> NoCtx, tracked |-> chStore.present,
         messageId |-> chStore.messageId, previousMessageId |-> chStore.previousMessageId]]

\* A waiting execution is resumed from outside: a user message, the wait timer
\* or a webhook.
ExternalResume ==
    /\ chExec.status = "waiting"
    /\ ~(chStore.present /\ AutoResumes(chCfg.responseMode, chExec))
    /\ HasFreeResume
    /\ chExec' = [chExec EXCEPT !.status = "running", !.resumed = TRUE]
    /\ chResume' = EmitResumed
    /\ UNCHANGED <<chCfg, chStore, chAfter, chNotifs, chStats>>

\* A second resume request for the same wait (two webhook calls, a repeated
\* message) delivers execution-resumed again.
RepeatedResume ==
    /\ chExec.status = "running"
    /\ chExec.resumed
    /\ HasFreeResume
    /\ chResume' = EmitResumed
    /\ UNCHANGED <<chCfg, chStore, chExec, chAfter, chNotifs, chStats>>

\* The position handleWorkflowExecuteAfter moves to once it holds the context.
AfterBranch(ctx, status, finished) ==
    IF ~ctx.present THEN "idle"
    ELSE IF status \notin {"success", "waiting", "canceled"} THEN "pushError"
    ELSE IF status = "canceled" THEN "cancel"
    ELSE IF status = "waiting" THEN "waiting"
    ELSE IF finished THEN "pushFinal"
    ELSE "idle"

\* handleWorkflowExecuteAfter up to the context: the queue-mode guard, then
\* executionStore.get and the status checks.
AfterStart(inst) ==
    /\ chAfter[inst].pc = "start"
    /\ IF SkipsExecuteAfter(chCfg.mode, inst)
       THEN /\ chAfter' = [chAfter EXCEPT ![inst] = IdleAfter]
            /\ UNCHANGED chStats
       ELSE /\ chAfter' = [chAfter EXCEPT ![inst].ctx = chStore,
                                          ![inst].pc = AfterBranch(chStore, chAfter[inst].status,
                                                                   chAfter[inst].finished)]
            /\ chStats' = [chStats EXCEPT !.readers = @ \cup {inst}]
    /\ UNCHANGED <<chCfg, chStore, chExec, chResume, chNotifs>>

\* pushErrorResults, the cancelled endExecution, or pushFinalResults.
AfterPush(inst) ==
    /\ chAfter[inst].pc \in {"pushError", "cancel", "pushFinal"}
    /\ chAfter' = [chAfter EXCEPT ![inst].pc = "remove"]
    /\ chStats' = [chStats EXCEPT !.actors = @ \cup {inst}, !.ends = @ + 1]
    /\ UNCHANGED <<chCfg, chStore, chExec, chResume, chNotifs>>

\* executionStore.remove(executionId).
AfterRemove(inst) ==
    /\ chAfter[inst].pc = "remove"
    /\ chStore' = NoCtx
    /\ chAfter' = [chAfter EXCEPT ![inst] = IdleAfter]
    /\ chStats' = [chStats EXCEPT !.actors = @ \cup {inst}]
    /\ UNCHANGED <<chCfg, chExec, chResume, chNotifs>>

\* handleWaitingExecution up to the store write: the message update, the stream
\* end, the auto-resume decision and, when auto-resuming, the next message.
AfterWaiting(inst) ==
    /\ chAfter[inst].pc = "waiting"
    /\ IF AutoResumes(chCfg.responseMode, chExec)
       THEN /\ chAfter' = [chAfter EXCEPT ![inst].pc = "autoUpdate",
                                          ![inst].newId = chStats.nextId]
            /\ chStats' = [chStats EXCEPT !.actors = @ \cup {inst}, !.ends = @ + 1,
                                          !.nextId = @ + 1]
       ELSE /\ chAfter' = [chAfter EXCEPT ![inst].pc = "mark"]
            /\ chStats' = [chStats EXCEPT !.actors = @ \cup {inst}, !.ends = @ + 1]
    /\ UNCHANGED <<chCfg, chStore, chExec, chResume, chNotifs>>

\* executionStore.update / markAsResuming on an entry that may be gone.
StoreUpdate(store, updates) ==
    IF store.present
    THEN [f \in DOMAIN store |-> IF f \in DOMAIN updates THEN updates[f] ELSE store[f]]
    ELSE store

\* triggerAutoResume: the context gets the new message and isResuming.
AfterAutoUpdate(inst) ==
    /\ chAfter[inst].pc = "autoUpdate"
    /\ chStore' = StoreUpdate(chStore, [previousMessageId |-> chAfter[inst].ctx.messageId,
                                         messageId |-> chAfter[inst].newId,
                                         isResuming |-> TRUE])
    /\ chAfter' = [chAfter EXCEPT ![inst].pc = "autoRun"]
    /\ chStats' = [chStats EXCEPT !.actors = @ \cup {inst}, !.marks = @ + 1]
    /\ UNCHANGED <<chCfg, chExec, chResume, chNotifs>>

\* triggerAutoResume: executionManager.runWorkflow resumes the execution.
AfterAutoRun(inst) ==
    /\ chAfter[inst].pc = "autoRun"
    /\ chExec.status = "waiting"
    /\ HasFreeResume
    /\ chExec' = [chExec EXCEPT !.status = "running", !.resumed = TRUE]
    /\ chResume' = EmitResumed
    /\ chAfter' = [chAfter EXCEPT ![inst] = IdleAfter]
    /\ UNCHANGED <<chCfg, chStore, chNotifs, chStats>>

\* handleWaitingExecution without auto-resume: executionStore.markAsResuming.
AfterMark(inst) ==
    /\ chAfter[inst].pc = "mark"
    /\ chStore' = StoreUpdate(chStore, [isResuming |-> TRUE])
    /\ chAfter' = [chAfter EXCEPT ![inst] = IdleAfter]
    /\ chStats' = [chStats EXCEPT !.actors = @ \cup {inst}, !.marks = @ + 1]
    /\ UNCHANGED <<chCfg, chExec, chResume, chNotifs>>

\* The position handleExecutionResumed moves to once it holds the context.
ResumeBranch(ctx) ==
    IF ~ctx.present THEN "done"
    ELSE IF ~ctx.isResuming THEN "done"
    ELSE "update"

\* handleExecutionResumed: executionStore.get and the two early returns.
ResumeGet(h) ==
    /\ chResume[h].pc = "get"
    /\ chResume' = [chResume EXCEPT ![h].ctx = chStore, ![h].pc = ResumeBranch(chStore)]
    /\ UNCHANGED <<chCfg, chStore, chExec, chAfter, chNotifs, chStats>>

\* handleExecutionResumed: executionStore.update(executionId, {isResuming: false}).
ResumeUpdate(h) ==
    /\ chResume[h].pc = "update"
    /\ chStore' = StoreUpdate(chStore, [isResuming |-> FALSE])
    /\ chResume' = [chResume EXCEPT ![h].pc = "startExecution"]
    /\ UNCHANGED <<chCfg, chExec, chAfter, chNotifs, chStats>>

\* handleExecutionResumed: chatStreamService.startExecution.
ResumeStartExecution(h) ==
    /\ chResume[h].pc = "startExecution"
    /\ chNotifs' = Append(chNotifs, [kind |-> "startExecution", by |-> h, messageId |-> 0,
                                     previousMessageId |-> 0])
    /\ chResume' = [chResume EXCEPT ![h].pc = "startStream"]
    /\ UNCHANGED <<chCfg, chStore, chExec, chAfter, chStats>>

\* handleExecutionResumed: chatStreamService.startStream.
ResumeStartStream(h) ==
    /\ chResume[h].pc = "startStream"
    /\ chNotifs' = Append(chNotifs, [kind |-> "startStream", by |-> h,
                                     messageId |-> chResume[h].ctx.messageId,
                                     previousMessageId |-> chResume[h].ctx.previousMessageId])
    /\ chResume' = [chResume EXCEPT ![h].pc = "done"]
    /\ UNCHANGED <<chCfg, chStore, chExec, chAfter, chStats>>

\* The variables of the other components.
chOthers == <<upVars, stVars, auVars, coVars, pxVars,
             wtVars, scVars, owVars>>

ChNext ==
    \/ \E status \in {"success", "error", "canceled", "waiting"}, finished, auto \in BOOLEAN :
          ExecutionEnds(status, finished, auto) /\ UNCHANGED chOthers
    \/ ExternalResume /\ UNCHANGED chOthers
    \/ RepeatedResume /\ UNCHANGED chOthers
    \/ \E inst \in Instances : AfterStart(inst) /\ UNCHANGED chOthers
    \/ \E inst \in Instances : AfterPush(inst) /\ UNCHANGED chOthers
    \/ \E inst \in Instances : AfterRemove(inst) /\ UNCHANGED chOthers
    \/ \E inst \in Instances : AfterWaiting(inst) /\ UNCHANGED chOthers
    \/ \E inst \in Instances : AfterAutoUpdate(inst) /\ UNCHANGED chOthers
    \/ \E inst \in Instances : AfterAutoRun(inst) /\ UNCHANGED chOthers
    \/ \E inst \in Instances : AfterMark(inst) /\ UNCHANGED chOthers
    \/ \E h \in 1..MaxResumeEvents : ResumeGet(h) /\ UNCHANGED chOthers
    \/ \E h \in 1..MaxResumeEvents : ResumeUpdate(h) /\ UNCHANGED chOthers
    \/ \E h \in 1..MaxResumeEvents : ResumeStartExecution(h) /\ UNCHANGED chOthers
    \/ \E h \in 1..MaxResumeEvents : ResumeStartStream(h) /\ UNCHANGED chOthers

InitChat == ChInit /\ UpQuiet /\ StQuiet /\ AuQuiet /\ CoQuiet /\ PxQuiet
    /\ WtQuiet /\ ScQuiet /\ OwQuiet

SpecChat == InitChat /\ [][ChNext]_vars

(***************************************************************************)
(* useWorkflowSetupState                                                   *)
(***************************************************************************)

\* Number of nodes the workflow may hold.
MaxNodes == 1

NodeIds == 1..MaxNodes

CredTypes == {"apiA", "apiB"}

\* node.position[0] values.
Positions == {0, 100}

\* The credentials known to credentialsStore.getCredentialById.
KnownCredentials == {"cred1"}

NoNode == [exists |-> FALSE, disabled |-> FALSE, issues |-> {}, creds |-> {}, x |-> 0]

\* nodesWithCredentialIssues: enabled nodes with at least one credential issue.
NodesWithCredentialIssues(nodes) ==
    {n \in DOMAIN nodes : nodes[n].exists /\ ~nodes[n].disabled /\ nodes[n].issues # {}}

\* A watcher that replaces a node's tracked types by its current issues.
WatchNodesReplacing(nodes, tracked) ==
    LET withIssues == NodesWithCredentialIssues(nodes)
    IN  [n \in (DOMAIN tracked) \cup withIssues |->
            IF n \in withIssues THEN nodes[n].issues ELSE tracked[n]]

\* The watcher on nodesWithCredentialIssues: add each node's issue types to
\* trackedNodes.
WatchNodes(nodes, tracked) ==
    LET withIssues == NodesWithCredentialIssues(nodes)
    IN  [n \in (DOMAIN tracked) \cup withIssues |->
            IF n \in withIssues
            THEN IF n \in DOMAIN tracked THEN tracked[n] \cup nodes[n].issues
                 ELSE nodes[n].issues
            ELSE tracked[n]]

\* lodash sortBy on position[0]: stable, so ties keep the order of sourceNodes.
RECURSIVE SortByX(_, _)
SortByX(nodes, ids) ==
    IF ids = {} THEN <<>>
    ELSE LET first == CHOOSE n \in ids :
                         \A o \in ids : \/ nodes[n].x < nodes[o].x
                                        \/ nodes[n].x = nodes[o].x /\ n <= o
         IN  <<first>> \o SortByX(nodes, ids \ {first})

\* trackedNodesSorted: tracked nodes that still exist and are enabled.
TrackedNodesSorted(nodes, tracked) ==
    SortByX(nodes, {n \in DOMAIN nodes :
                       nodes[n].exists /\ ~nodes[n].disabled /\ n \in DOMAIN tracked})

\* One credential requirement of a node setup state.
CredentialRequirement(node, credType) ==
    [credentialType |-> credType,
     selectedCredentialId |-> IF credType \in node.creds THEN "cred1" ELSE Null,
     issues |-> IF credType \in node.issues THEN <<"issue">> ELSE <<>>]

\* nodeSetupStates: one entry per tracked node, requirements from the tracked
\* credential types.
NodeSetupStates(nodes, tracked) ==
    LET sorted == TrackedNodesSorted(nodes, tracked)
    IN  [i \in DOMAIN sorted |->
            LET n == sorted[i]
                reqs == {CredentialRequirement(nodes[n], t) : t \in tracked[n]}
            IN  [node |-> n,
                 credentialRequirements |-> reqs,
                 isComplete |-> \A r \in reqs :
                                   r.selectedCredentialId # Null /\ r.issues = <<>>]]

StInit ==
    /\ stNodes \in [NodeIds -> {NoNode} \cup
                      [exists : {TRUE}, disabled : BOOLEAN, issues : SUBSET CredTypes,
                       creds : {{}}, x : Positions]]
    /\ stTracked = WatchNodes(stNodes, <<>>)

\* The store changed to nodes; the watcher runs before anything else happens.
StCommit(nodes) ==
    /\ stNodes' = nodes
    /\ stTracked' = WatchNodes(nodes, stTracked)

\* A node is added to the workflow.
StAddNode(n, disabled, issues, x) ==
    /\ ~stNodes[n].exists
    /\ StCommit([stNodes EXCEPT ![n] = [exists |-> TRUE, disabled |-> disabled,
                                        issues |-> issues, creds |-> {}, x |-> x]])

\* A node is removed from the workflow.
StRemoveNode(n) ==
    /\ stNodes[n].exists
    /\ StCommit([stNodes EXCEPT ![n] = NoNode])

\* A node is enabled or disabled.
StSetDisabled(n, disabled) ==
    /\ stNodes[n].exists
    /\ StCommit([stNodes EXCEPT ![n].disabled = disabled])

\* The validation system recomputes a node's credential issues.
StUpdateIssues(n, issues) ==
    /\ stNodes[n].exists
    /\ StCommit([stNodes EXCEPT ![n].issues = issues])

\* setCredential, then updateNodeCredentialIssuesByName (issues recomputed).
SetCredential(n, credType, credentialId, issues) ==
    IF credentialId \notin KnownCredentials \/ ~stNodes[n].exists
    THEN UNCHANGED stVars
    ELSE StCommit([stNodes EXCEPT ![n].creds = @ \cup {credType}, ![n].issues = issues])

\* unsetCredential, then updateNodeCredentialIssuesByName (issues recomputed).
UnsetCredential(n, credType, issues) ==
    IF ~stNodes[n].exists
    THEN UNCHANGED stVars
    ELSE StCommit([stNodes EXCEPT ![n].creds = @ \ {credType}, ![n].issues = issues])

\* The variables of the other components.
stOthers == <<upVars, chVars, auVars, coVars, pxVars,
             wtVars, scVars, owVars>>

StNext ==
    \/ \E n \in NodeIds, d \in BOOLEAN, iss \in SUBSET CredTypes, x \in Positions :
          StAddNode(n, d, iss, x) /\ UNCHANGED stOthers
    \/ \E n \in NodeIds : StRemoveNode(n) /\ UNCHANGED stOthers
    \/ \E n \in NodeIds, d \in BOOLEAN : StSetDisabled(n, d) /\ UNCHANGED stOthers
    \/ \E n \in NodeIds, iss \in SUBSET CredTypes : StUpdateIssues(n, iss) /\ UNCHANGED stOthers
    \/ \E n \in NodeIds, t \in CredTypes, c \in KnownCredentials \cup {"missing"},
          iss \in SUBSET CredTypes :
          SetCredential(n, t, c, iss) /\ UNCHANGED stOthers
    \/ \E n \in NodeIds, t \in CredTypes, iss \in SUBSET CredTypes :
          UnsetCredential(n, t, iss) /\ UNCHANGED stOthers

InitSetup == StInit /\ UpQuiet /\ ChQuiet /\ AuQuiet /\ CoQuiet /\ PxQuiet
    /\ WtQuiet /\ ScQuiet /\ OwQuiet

SpecSetup == InitSetup /\ [][StNext]_vars

(***************************************************************************)
(* AuditLogService.getEvents                                               *)
(***************************************************************************)

\* Largest event timestamp.
MaxTime == 2

\* Number of rows in the audit_log table.
MaxRows == 2

\* take: 50
AuditTake == 50

Times == 0..MaxTime

AuditRows == [eventName : {"e1", "e2"}, userId : {"u1", "u2"}, timestamp : Times]

\* An optional filter field: left out, or given with a value.
Unset(v) == [set |-> FALSE, value |-> v]
Given(v) == [set |-> TRUE, value |-> v]

\* AuditLogFilterDto: an ISO datetime string is written by the time it names.
AuditFilters ==
    [eventName : {Unset(""), Given(""), Given("e1")},
     userId : {Unset(""), Given(""), Given("u1")},
     after : {Unset(0)} \cup {Given(t) : t \in Times},
     before : {Unset(0)} \cup {Given(t) : t \in Times}]

\* JavaScript truthiness of an optional string.
Truthy(f) == f.set /\ f.value # ""

\* A datetime string is never empty.
TruthyDate(f) == f.set

\* new Date(isoString): the time the string names.
NewDate(iso) == iso

\* typeorm find operators.
Equal(v) == [op |-> "Equal", args |-> <<v>>]
MoreThan(d) == [op |-> "MoreThan", args |-> <<d>>]
LessThan(d) == [op |-> "LessThan", args |-> <<d>>]
And(x, y) == [op |-> "And", args |-> <<x, y>>]

\* Whether a column value satisfies a find operator.
Satisfies(cond, v) ==
    LET One(c) == CASE c.op = "Equal" -> v = c.args[1]
                    [] c.op = "MoreThan" -> v > c.args[1]
                    [] c.op = "LessThan" -> v < c.args[1]
                    [] OTHER -> FALSE
    IN  IF cond.op = "And" THEN One(cond.args[1]) /\ One(cond.args[2]) ELSE One(cond)

EmptyWhere == [k \in {} |-> Equal("")]

\* The where clause of the earlier getEvents: eventName and timestamp keys are
\* always there, and after selects older events.
AuditWhereEarlier(filter) ==
    ("eventName" :> Equal(filter.eventName.value))
    @@ ("timestamp" :> LessThan(NewDate(filter.after.value)))

\* The where clause getEvents builds from the filter.
AuditWhere(filter) ==
    (IF Truthy(filter.eventName) THEN "eventName" :> Equal(filter.eventName.value)
     ELSE EmptyWhere)
    @@ (IF Truthy(filter.userId) THEN "userId" :> Equal(filter.userId.value) ELSE EmptyWhere)
    @@ (IF TruthyDate(filter.after) /\ TruthyDate(filter.before)
        THEN "timestamp" :> And(MoreThan(NewDate(filter.after.value)),
                                LessThan(NewDate(filter.before.value)))
        ELSE IF TruthyDate(filter.after)
        THEN "timestamp" :> MoreThan(NewDate(filter.after.value))
        ELSE IF TruthyDate(filter.before)
        THEN "timestamp" :> LessThan(NewDate(filter.before.value))
        ELSE EmptyWhere)

\* The options getEvents passes to auditLogRepository.find.
AuditFindOptions(filter) ==
    [take |-> AuditTake, order |-> [timestamp |-> "DESC"], where |-> AuditWhere(filter)]

\* The rows a where clause selects.
Selected(rows, where) ==
    {r \in rows : \A k \in DOMAIN where : Satisfies(where[k], r[k])}

\* Rows ordered by timestamp, newest first.
RECURSIVE OrderDesc(_)
OrderDesc(rows) ==
    IF rows = {} THEN <<>>
    ELSE LET top == CHOOSE r \in rows : \A o \in rows : r.timestamp >= o.timestamp
         IN  <<top>> \o OrderDesc(rows \ {top})

Take(seq, n) == SubSeq(seq, 1, IF Len(seq) < n THEN Len(seq) ELSE n)

\* auditLogRepository.find(options).
Find(rows, options) == Take(OrderDesc(Selected(rows, options.where)), options.take)

NoCall == [made |-> FALSE]

AuInit ==
    /\ auRows = {}
    /\ auCall = NoCall

\* An audit event is written to the table.
AuInsert(row) ==
    /\ ~auCall.made
    /\ Cardinality(auRows) < MaxRows
    /\ row \notin auRows
    /\ auRows' = auRows \cup {row}
    /\ UNCHANGED auCall

\* getEvents(filter).
GetEvents(filter) ==
    /\ ~auCall.made
    /\ auCall' = [made |-> TRUE, filter |-> filter, options |-> AuditFindOptions(filter),
                  result |-> Find(auRows, AuditFindOptions(filter))]
    /\ UNCHANGED auRows

\* The variables of the other components.
auOthers == <<upVars, chVars, stVars, coVars, pxVars,
             wtVars, scVars, owVars>>

AuNext ==
    \/ \E row \in AuditRows : AuInsert(row) /\ UNCHANGED auOthers
    \/ \E filter \in AuditFilters : GetEvents(filter) /\ UNCHANGED auOthers

InitAudit == AuInit /\ UpQuiet /\ ChQuiet /\ StQuiet /\ CoQuiet /\ PxQuiet
    /\ WtQuiet /\ ScQuiet /\ OwQuiet

SpecAudit == InitAudit /\ [][AuNext]_vars

(***************************************************************************)
(* createIntrospectionCollector                                            *)
(***************************************************************************)

\* Number of addEvents and drain calls made on the collector.
MaxCalls == 4

\* Largest number of events in one addEvents call.
MaxBatch == 2

CoInit ==
    /\ coCollected = <<>>
    /\ coDrains = <<>>
    /\ coLog = <<>>

\* The events added so far.
RECURSIVE AddedIn(_)
AddedIn(log) ==
    IF log = <<>> THEN <<>>
    ELSE AddedIn(SubSeq(log, 1, Len(log) - 1))
         \o (IF log[Len(log)].call = "addEvents" THEN log[Len(log)].events ELSE <<>>)

\* k new events, numbered after those added before.
FreshEvents(log, k) == [i \in 1..k |-> Len(AddedIn(log)) + i]

\* A drain that returns the events and keeps the buffer.
BufferAfterDrainKept(collected) == collected

\* drain(): collected = [].
BufferAfterDrain(collected) == <<>>

\* addEvents(events): collected.push(...events).
AddEvents(k) ==
    /\ Len(coLog) < MaxCalls
    /\ coCollected' = coCollected \o FreshEvents(coLog, k)
    /\ coLog' = Append(coLog, [call |-> "addEvents", events |-> FreshEvents(coLog, k)])
    /\ UNCHANGED coDrains

\* drain(): return the buffer and start a new one.
Drain ==
    /\ Len(coLog) < MaxCalls
    /\ coDrains' = Append(coDrains, coCollected)
    /\ coCollected' = BufferAfterDrain(coCollected)
    /\ coLog' = Append(coLog, [call |-> "drain", events |-> <<>>])

\* The variables of the other components.
coOthers == <<upVars, chVars, stVars, auVars, pxVars,
             wtVars, scVars, owVars>>

CoNext ==
    \/ \E k \in 0..MaxBatch : AddEvents(k) /\ UNCHANGED coOthers
    \/ Drain /\ UNCHANGED coOthers

InitCollector == CoInit /\ UpQuiet /\ ChQuiet /\ StQuiet /\ AuQuiet /\ PxQuiet
    /\ WtQuiet /\ ScQuiet /\ OwQuiet

SpecCollector == InitCollector /\ [][CoNext]_vars

(***************************************************************************)
(* ProxyServer.loadExpectations                                            *)
(***************************************************************************)

\* Number of file names in the expectations folder.
MaxFiles == 3

FileNames == 1..MaxFiles

\* What a file holds: invalid JSON (or nothing readable), the JSON null, a JSON
\* number or string, or an expectation whose httpRequest has no body, a body
\* without messages, or a body with messages.
FileKinds == {"invalid", "null", "primitive", "noBody", "body", "messages"}

\* The content items of the messages of a recorded request.
SampleMessages == <<"text", "textWithUuid", "tool_use", "tool_result",
                    "tool_resultWithUuid", "image">>

\* What a file name of the folder stands for: no such file, a file without the
\* .json suffix, or a .json file of one of the kinds.
FileSlots == {"absent", "other"} \cup FileKinds

\* The folders loadExpectations may find: at most one file per name.
Folders ==
    {{[name |-> n, json |-> c[n] # "other",
       kind |-> IF c[n] = "other" THEN "invalid" ELSE c[n]] :
          n \in {m \in FileNames : c[m] # "absent"}} :
        c \in [FileNames -> FileSlots]}

\* stripUUIDFields on the content items: text and tool_result without UUIDs and
\* tool_use are kept.
StripUUIDFields(items) ==
    SelectSeq(items, LAMBDA it : it \in {"text", "tool_use", "tool_result"})

\* files.filter(endsWith('.json')).sort()
RECURSIVE SortNames(_)
SortNames(names) ==
    IF names = {} THEN <<>>
    ELSE LET least == CHOOSE n \in names : \A o \in names : n <= o
         IN  <<least>> \o SortNames(names \ {least})

JsonFiles(dir) == SortNames({f.name : f \in {g \in dir : g.json}})

\* JSON.parse of a file that holds an expectation.
ParsedExpectation(file) ==
    [file |-> file.name,
     body |-> file.kind \in {"body", "messages"},
     matchType |-> "unset",
     messages |-> IF file.kind = "messages" THEN SampleMessages ELSE <<>>,
     priority |-> 0,
     times |-> [remainingTimes |-> 0, unlimited |-> TRUE]]

\* A priority that grows with the file index.
PriorityAscending(n, i) == i

\* expectation.priority = jsonFiles.length - i
PriorityOf(n, i) == n - i

\* The body of the for loop for a parsed expectation (i is 0-based).
Prepared(exp, opts, n, i) ==
    LET strict == IF opts.strictBodyMatching /\ exp.body
                  THEN [exp EXCEPT !.matchType = "STRICT"] ELSE exp
    IN  IF opts.sequentialMatching
        THEN [strict EXCEPT
                 !.messages = StripUUIDFields(@),
                 !.matchType = IF exp.body THEN "ONLY_MATCHING_FIELDS" ELSE @,
                 !.priority = PriorityOf(n, i),
                 !.times = [remainingTimes |-> 1, unlimited |-> FALSE]]
        ELSE strict

\* Whether the loop body throws for a file: invalid JSON, a property read on
\* null (reached only with one of the options set), or a property write on a
\* number or string (class bodies are strict code).
Throws(file, opts) ==
    \/ file.kind = "invalid"
    \/ file.kind = "null" /\ (opts.strictBodyMatching \/ opts.sequentialMatching)
    \/ file.kind = "primitive" /\ opts.sequentialMatching

\* What is pushed for a file that holds no object.
NullExpectation(file) ==
    [file |-> file.name, body |-> FALSE, matchType |-> "unset", messages |-> <<>>,
     priority |-> 0, times |-> [remainingTimes |-> 0, unlimited |-> TRUE]]

PxInit ==
    /\ pxDir \in Folders
    /\ pxOpts \in [strictBodyMatching : BOOLEAN, sequentialMatching : BOOLEAN]
    /\ pxRun = [pc |-> "start", jsonFiles |-> <<>>, i |-> 0, expectations |-> <<>>]
    /\ pxLoaded = <<>>

\* fs.readdir, the .json filter and the sort; a failing readdir ends the call.
PxReadDir(ok) ==
    /\ pxRun.pc = "start"
    /\ pxRun' = IF ok THEN [pxRun EXCEPT !.pc = "loop", !.jsonFiles = JsonFiles(pxDir)]
                ELSE [pxRun EXCEPT !.pc = "done"]
    /\ UNCHANGED <<pxDir, pxOpts, pxLoaded>>

\* One iteration of the loop: read and parse jsonFiles[i], prepare and push the
\* expectation, or log the error and go on.
PxLoadFile ==
    /\ pxRun.pc = "loop"
    /\ pxRun.i < Len(pxRun.jsonFiles)
    /\ LET file == CHOOSE f \in pxDir : f.json /\ f.name = pxRun.jsonFiles[pxRun.i + 1]
           parsed == IF file.kind \in {"null", "primitive"} THEN NullExpectation(file)
                     ELSE ParsedExpectation(file)
       IN  pxRun' = [pxRun EXCEPT
                        !.i = @ + 1,
                        !.expectations =
                            IF Throws(file, pxOpts) THEN @
                            ELSE Append(@, Prepared(parsed, pxOpts, Len(pxRun.jsonFiles),
                                                    pxRun.i))]
    /\ UNCHANGED <<pxDir, pxOpts, pxLoaded>>

\* After the loop: client.mockAnyResponse(expectations) when there are any.
PxSend ==
    /\ pxRun.pc = "loop"
    /\ pxRun.i = Len(pxRun.jsonFiles)
    /\ pxLoaded' = IF Len(pxRun.expectations) > 0 THEN pxRun.expectations ELSE pxLoaded
    /\ pxRun' = [pxRun EXCEPT !.pc = "done"]
    /\ UNCHANGED <<pxDir, pxOpts>>

\* The variables of the other components.
pxOthers == <<upVars, chVars, stVars, auVars, coVars,
             wtVars, scVars, owVars>>

PxNext ==
    \/ \E ok \in BOOLEAN : PxReadDir(ok) /\ UNCHANGED pxOthers
    \/ PxLoadFile /\ UNCHANGED pxOthers
    \/ PxSend /\ UNCHANGED pxOthers

InitProxy == PxInit /\ UpQuiet /\ ChQuiet /\ StQuiet /\ AuQuiet /\ CoQuiet
    /\ WtQuiet /\ ScQuiet /\ OwQuiet

SpecProxy == InitProxy /\ [][PxNext]_vars

(***************************************************************************)
(* withTimeout                                                             *)
(***************************************************************************)

\* Number of withTimeout calls.
MaxTimeoutCalls == 2

TimeoutCalls == 1..MaxTimeoutCalls

\* The values args.timeoutMs may hold at run time: undefined, a string, a finite
\* number, or NaN (v = 0), Infinity (v = 1), -Infinity (v = -1).
TimeoutMsValues ==
    {[type |-> "undefined", finite |-> FALSE, v |-> 0],
     [type |-> "string", finite |-> FALSE, v |-> 5]}
    \cup [type : {"number"}, finite : {TRUE}, v : {-1, 0, 1, 5}]
    \cup [type : {"number"}, finite : {FALSE}, v : {-1, 0, 1}]

\* How args.promise stands: pending, fulfilled with a value or rejected.
PromiseStates == {"pending", "fulfilled", "rejected"}

\* Number.isFinite(timeoutMs)
IsFinite(ms) == ms.type = "number" /\ ms.finite

\* !Number.isFinite(timeoutMs) || timeoutMs <= 0
InvalidTimeoutMs(ms) == ~IsFinite(ms) \/ ms.v <= 0

NoResult == [kind |-> "none", ms |-> 0, label |-> 0]

\* What the await of args.promise gives.
PromiseResult(c, promise) ==
    [kind |-> IF promise = "fulfilled" THEN "value" ELSE "error", ms |-> 0, label |-> c]

\* new Error(`Invalid timeoutMs (...) for ${label}`)
InvalidError(c, ms) == [kind |-> "invalidTimeoutMs", ms |-> ms.v, label |-> c]

\* new Error(`Timed out after ${timeoutMs}ms in ${label}`)
TimedOutError(c, ms) == [kind |-> "timedOut", ms |-> ms.v, label |-> c]

\* A finally block that leaves the timer alone.
TimerAfterFinallyKept(timer) == timer

\* finally { if (timer) clearTimeout(timer); }
TimerAfterFinally(timer) == IF timer = "pending" THEN "cleared" ELSE timer

WtInit ==
    wtCalls \in [TimeoutCalls ->
                    [timeoutMs : TimeoutMsValues, promise : PromiseStates,
                     pc : {"idle"}, timer : {"none"}, first : {"none"},
                     outcome : {NoResult}]]

\* The call up to its first await: the typeof test, the validity test, or the
\* timer and Promise.race. A promise that is already settled wins the race.
WtCall(c) ==
    LET call == wtCalls[c]
        ms == call.timeoutMs
    IN  /\ call.pc = "idle"
        /\ wtCalls' = [wtCalls EXCEPT ![c] =
              IF ms.type # "number" THEN [call EXCEPT !.pc = "awaitPromise"]
              ELSE IF InvalidTimeoutMs(ms)
                   THEN [call EXCEPT !.pc = "done", !.outcome = InvalidError(c, ms)]
                   ELSE [call EXCEPT !.pc = "race", !.timer = "pending",
                                     !.first = IF call.promise = "pending"
                                               THEN "none" ELSE "promise"]]

\* The underlying work settles args.promise.
WtPromiseSettles(c, how) ==
    LET call == wtCalls[c]
    IN  /\ call.promise = "pending"
        /\ wtCalls' = [wtCalls EXCEPT ![c] =
              [call EXCEPT !.promise = how,
                           !.first = IF call.pc = "race" /\ call.first = "none"
                                     THEN "promise" ELSE @]]

\* The setTimeout callback runs and rejects the timeout promise.
WtTimerFires(c) ==
    LET call == wtCalls[c]
    IN  /\ call.timer = "pending"
        /\ wtCalls' = [wtCalls EXCEPT ![c] =
              [call EXCEPT !.timer = "fired",
                           !.first = IF call.first = "none" THEN "timer" ELSE @]]

\* return await promise, for a timeoutMs that is not a number.
WtReturnPromise(c) ==
    LET call == wtCalls[c]
    IN  /\ call.pc = "awaitPromise"
        /\ call.promise # "pending"
        /\ wtCalls' = [wtCalls EXCEPT ![c] =
              [call EXCEPT !.pc = "done", !.outcome = PromiseResult(c, call.promise)]]

\* The race has settled: the finally block runs and withTimeout settles.
WtReturnRace(c) ==
    LET call == wtCalls[c]
    IN  /\ call.pc = "race"
        /\ call.first # "none"
        /\ wtCalls' = [wtCalls EXCEPT ![c] =
              [call EXCEPT !.pc = "done",
                           !.timer = TimerAfterFinally(call.timer),
                           !.outcome = IF call.first = "promise"
                                       THEN PromiseResult(c, call.promise)
                                       ELSE TimedOutError(c, call.timeoutMs)]]

\* The variables of the other components.
wtOthers == <<upVars, chVars, stVars, auVars, coVars, pxVars, scVars, owVars>>

WtNext ==
    \/ \E c \in TimeoutCalls : WtCall(c) /\ UNCHANGED wtOthers
    \/ \E c \in TimeoutCalls, how \in {"fulfilled", "rejected"} :
          WtPromiseSettles(c, how) /\ UNCHANGED wtOthers
    \/ \E c \in TimeoutCalls : WtTimerFires(c) /\ UNCHANGED wtOthers
    \/ \E c \in TimeoutCalls : WtReturnPromise(c) /\ UNCHANGED wtOthers
    \/ \E c \in TimeoutCalls : WtReturnRace(c) /\ UNCHANGED wtOthers

InitTimeout ==
    WtInit /\ UpQuiet /\ ChQuiet /\ StQuiet /\ AuQuiet /\ CoQuiet /\ PxQuiet
    /\ ScQuiet /\ OwQuiet

SpecTimeout == InitTimeout /\ [][WtNext]_vars

(***************************************************************************)
(* getCredentialSynchableData and                                          *)
(* mergeRemoteCrendetialDataIntoLocalCredentialData                        *)
(***************************************************************************)

\* Largest number held by a credential field.
MaxCredNumber == 1

\* A value of credential data: a number, an expression string (starts with
\* '='), a plain string, a boolean, null, or an object (v maps keys to values;
\* an array is the object of its indexes).
NumberValues == [t : {"number"}, v : 1..MaxCredNumber]

ExpressionValue == [t |-> "expression", v |-> 1]

StringValue == [t |-> "string", v |-> 1]

BooleanValue == [t |-> "boolean", v |-> 1]

NullValue == [t |-> "null", v |-> 0]

ScalarValues == NumberValues \cup {ExpressionValue, StringValue, BooleanValue, NullValue}

ObjectValue(f) == [t |-> "object", v |-> f]

\* The functions from a subset of keys to vals.
PartialData(keys, vals) == UNION {[ks -> vals] : ks \in SUBSET keys}

\* Nested objects of a credential, such as auth: {apiKey, port}.
NestedObjects(scalars) == {ObjectValue(f) : f \in PartialData({"apiKey", "port"}, scalars)}

\* Top-level data without oauthTokenData: a scalar field and a field that is
\* a scalar or a nested object.
DataOver(scalars) ==
    {f @@ g : f \in PartialData({"host"}, scalars),
              g \in PartialData({"auth"}, scalars \cup NestedObjects(scalars))}

\* oauthTokenData as the OAuth flow stores it in the local credential.
OauthTokenData == ObjectValue([accessToken |-> StringValue])

\* credentials.getData() of a local credential.
LocalData ==
    {d @@ o : d \in DataOver(ScalarValues),
              o \in PartialData({"oauthTokenData"}, {OauthTokenData})}

\* The data of a credential file in the remote: plain strings never get there.
RemoteData == DataOver(ScalarValues \ {StringValue})

\* The same function without a key.
Omit(f, key) == [k \in DOMAIN f \ {key} |-> f[k]]

\* Keeps numbers and expressions, sanitizes nested objects, omits the rest.
RECURSIVE SanitizeKeepingStrings(_)
SanitizeKeepingStrings(f) ==
    LET kept == {k \in DOMAIN f : f[k].t \in {"number", "expression", "string", "object"}}
    IN  [k \in kept |-> IF f[k].t = "object"
                        THEN ObjectValue(SanitizeKeepingStrings(f[k].v)) ELSE f[k]]

RECURSIVE SanitizeCredentialData(_)
SanitizeCredentialData(f) ==
    LET kept == {k \in DOMAIN f : f[k].t \in {"number", "expression", "object"}}
    IN  [k \in kept |-> IF f[k].t = "object"
                        THEN ObjectValue(SanitizeCredentialData(f[k].v)) ELSE f[k]]

\* The data exported to the remote: oauthTokenData excluded, the rest sanitized.
GetCredentialSynchableData(data) == SanitizeCredentialData(Omit(data, "oauthTokenData"))

\* A merge that takes remote as it is.
DeepMergeRemoteOnly(local, remote) == remote

\* Remote values over local ones, object by object; local fields that remote
\* does not have stay.
RECURSIVE DeepMerge(_, _)
DeepMerge(local, remote) ==
    [k \in DOMAIN local \cup DOMAIN remote |->
        IF k \notin DOMAIN remote THEN local[k]
        ELSE IF remote[k].t = "object"
             THEN ObjectValue(DeepMerge(IF k \in DOMAIN local /\ local[k].t = "object"
                                        THEN local[k].v ELSE <<>>,
                                        remote[k].v))
             ELSE remote[k]]

\* The remote data is sanitized, then merged into the local data.
MergeRemoteCrendetialDataIntoLocalCredentialData(local, remote) ==
    DeepMerge(local, SanitizeCredentialData(remote))

ScInit ==
    /\ scLocal \in LocalData
    /\ scRemote = <<>>
    /\ scPhase = "local"

\* Push: the credential's synchable data becomes the remote file.
ScExport ==
    /\ scPhase = "local"
    /\ scRemote' = GetCredentialSynchableData(scLocal)
    /\ scPhase' = "exported"
    /\ UNCHANGED scLocal

\* Another instance pushed the credential, or the file was edited.
ScRemoteChange(data) ==
    /\ scPhase = "local"
    /\ scRemote' = data
    /\ scPhase' = "changed"
    /\ UNCHANGED scLocal

\* Pull: the remote data is merged into the local credential.
ScImport ==
    /\ scPhase \in {"exported", "changed"}
    /\ scLocal' = MergeRemoteCrendetialDataIntoLocalCredentialData(scLocal, scRemote)
    /\ scPhase' = "imported"
    /\ UNCHANGED scRemote

\* The variables of the other components.
scOthers == <<upVars, chVars, stVars, auVars, coVars, pxVars, wtVars, owVars>>

ScNext ==
    \/ ScExport /\ UNCHANGED scOthers
    \/ \E data \in RemoteData : ScRemoteChange(data) /\ UNCHANGED scOthers
    \/ ScImport /\ UNCHANGED scOthers

InitCredentialSync ==
    ScInit /\ UpQuiet /\ ChQuiet /\ StQuiet /\ AuQuiet /\ CoQuiet /\ PxQuiet
    /\ WtQuiet /\ OwQuiet

SpecCredentialSync == InitCredentialSync /\ [][ScNext]_vars

(***************************************************************************)
(* hasOwnerChanged                                                         *)
(***************************************************************************)

\* Number of personal projects, and of team projects.
MaxProjects == 2

\* A project is personal or a team project, so the ids of the two kinds differ.
PersonalProjectIds == 1..MaxProjects

TeamProjectIds == (MaxProjects + 1)..(2 * MaxProjects)

\* A project may be named differently on the two sides.
ProjectNames == {1, 2}

UndefinedOwner == [type |-> "undefined", projectId |-> 0, projectName |-> 0]

\* The owners hasOwnerChanged is given: undefined, a personal or a team owner.
Owners ==
    {UndefinedOwner}
    \cup [type : {"personal"}, projectId : PersonalProjectIds, projectName : ProjectNames]
    \cup [type : {"team"}, projectId : TeamProjectIds, projectName : ProjectNames]

\* A comparison of the project ids whatever the owners' types.
HasOwnerChangedAnyType(owner1, owner2) == owner1.projectId # owner2.projectId

\* Owners are compared, by project id, only when one of them is a team owner.
HasOwnerChanged(owner1, owner2) ==
    IF owner1.type # "team" /\ owner2.type # "team" THEN FALSE
    ELSE owner1.projectId # owner2.projectId

OwInit ==
    owCall \in [owner1 : Owners, owner2 : Owners, called : {FALSE},
                result : {FALSE}, swapped : {FALSE}]

\* hasOwnerChanged(owner1, owner2) and hasOwnerChanged(owner2, owner1).
OwCompare ==
    /\ ~owCall.called
    /\ owCall' = [owCall EXCEPT
                     !.called = TRUE,
                     !.result = HasOwnerChanged(owCall.owner1, owCall.owner2),
                     !.swapped = HasOwnerChanged(owCall.owner2, owCall.owner1)]

\* The variables of the other components.
owOthers == <<upVars, chVars, stVars, auVars, coVars, pxVars, wtVars, scVars>>

OwNext ==
    \/ OwCompare /\ UNCHANGED owOthers

InitOwner ==
    OwInit /\ UpQuiet /\ ChQuiet /\ StQuiet /\ AuQuiet /\ CoQuiet /\ PxQuiet
    /\ WtQuiet /\ ScQuiet

SpecOwner == InitOwner /\ [][OwNext]_vars

InitUpload == UpInit /\ ChQuiet /\ StQuiet /\ AuQuiet /\ CoQuiet /\ PxQuiet
    /\ WtQuiet /\ ScQuiet /\ OwQuiet

SpecUpload == InitUpload /\ [][UpNext]_vars

\* A request with a file and no upload error.
UploadAccepted(r) == upReq[r].err = NoErr /\ upReq[r].file

\* C1: for a request with a file and no fileUploadError, unlink(req.file.path) is
\* called after binaryDataService.store settles, whether store resolved (the
\* metadata is returned) or rejected (the store error is thrown unchanged, also
\* when the unlink itself fails).
C1_UnlinkAfterStoreSettles ==
    \A r \in Requests :
        /\ (upPc[r] \in {"unlinking", "done"} /\ UploadAccepted(r)) =>
               \/ upLog[r] = <<"store", "storeResolved", "unlink">>
               \/ upLog[r] = <<"store", "storeRejected", "unlink">>
        /\ (upPc[r] = "done" /\ UploadAccepted(r)) =>
               /\ upLog[r][2] = "storeResolved" =>
                      upOut[r] = [kind |-> "return", value |-> UploadMetadata(r)]
               /\ upLog[r][2] = "storeRejected" =>
                      upOut[r] = [kind |-> "throw", error |-> StoreErr]
        /\ (upPc[r] = "storing") => upLog[r] = <<"store">>

\* One upload finished after a resolved store and another after a rejected store
\* whose unlink failed as well.
C1_Witness ==
    \E r, q \in Requests :
        /\ upPc[r] = "done" /\ upLog[r] = <<"store", "storeResolved", "unlink">>
        /\ TempPath(r) \notin tmpFiles
        /\ upPc[q] = "done" /\ upLog[q] = <<"store", "storeRejected", "unlink">>
        /\ TempPath(q) \in tmpFiles

\* C2: fileUploadError is checked before file; each of the four rejections throws
\* its BadRequestError, and neither store nor unlink is called for the request.
C2_UploadRejections ==
    \A r \in Requests :
        (upPc[r] = "done" /\ ~UploadAccepted(r)) =>
            /\ upLog[r] = <<>>
            /\ upReq[r].file => TempPath(r) \in tmpFiles
            /\ upOut[r].kind = "throw"
            /\ upReq[r].err = MulterErr =>
                   upOut[r].error = [class |-> "BadRequestError",
                                     message |-> <<"File upload error: ", "File too large">>]
            /\ upReq[r].err = BadReqErr => upOut[r].error = BadReqErr
            /\ upReq[r].err = OtherErr =>
                   upOut[r].error = [class |-> "BadRequestError",
                                     message |-> <<"File upload failed">>]
            /\ upReq[r].err = NoErr =>
                   upOut[r].error = [class |-> "BadRequestError",
                                     message |-> <<"No file uploaded">>]

\* A request rejected for a BadRequestError although multer also left a file, and
\* another rejected for having no file.
C2_Witness ==
    \E r, q \in Requests :
        /\ upPc[r] = "done" /\ upReq[r].err = BadReqErr /\ upReq[r].file
        /\ upPc[q] = "done" /\ upReq[q].err = NoErr /\ ~upReq[q].file

\* The calls of one kind made to chatStreamService by handleExecutionResumed.
NotifsOf(kind) == {i \in DOMAIN chNotifs : chNotifs[i].kind = kind}

\* C3: for a context marked isResuming once, handleExecutionResumed notifies at
\* most once (one startExecution, one startStream) however many execution-resumed
\* events arrive and however their handlers interleave, and after a notification
\* the context's isResuming flag is false.
C3_NotifiedAtMostOnce ==
    chStats.marks = 1 =>
        /\ Cardinality(NotifsOf("startExecution")) <= 1
        /\ Cardinality(NotifsOf("startStream")) <= 1
        /\ NotifsOf("startExecution") # {} => ~chStore.isResuming

\* C4: in queue mode the main instance returns from handleWorkflowExecuteAfter
\* without reading the execution store and without any side effect, so the side
\* effects of an event are the worker's alone; endExecution is called at most
\* once per event.
C4_MainSkipsInQueueMode ==
    /\ chCfg.mode = "queue" =>
          /\ "main" \notin chStats.readers
          /\ "main" \notin chStats.actors
    /\ chStats.ends <= 1

\* In queue mode both instances got the event, main has returned and the worker
\* has pushed the results.
C4_Witness ==
    /\ chCfg.mode = "queue"
    /\ chAfter["main"].pc = "idle"
    /\ chAfter["worker"].pc = "remove"
    /\ chAfter["worker"].status = "success"
    /\ chStats.ends = 1
    /\ chStats.actors = {"worker"}

\* The execution-resumed handlers started for the same wait as handler h.
SameWait(h) == {g \in 1..MaxResumeEvents : chResume[g].pc # "idle" /\ chResume[g].cycle = chResume[h].cycle}

\* Handler g called startExecution and then startStream for the given messages.
NotifiedBy(g, messageId, previousMessageId) ==
    \E i, j \in DOMAIN chNotifs :
        /\ i < j
        /\ chNotifs[i].kind = "startExecution" /\ chNotifs[i].by = g
        /\ chNotifs[j].kind = "startStream" /\ chNotifs[j].by = g
        /\ chNotifs[j].messageId = messageId
        /\ chNotifs[j].previousMessageId = previousMessageId

\* C5: every resumption of a tracked waiting execution is notified: once the
\* handlers of the resumption have returned, startExecution and then startStream
\* were sent for the context's messageId and previousMessageId.
C5_EveryResumptionNotified ==
    \A h \in 1..MaxResumeEvents :
        (/\ chResume[h].pc = "done"
         /\ chResume[h].tracked
         /\ \A g \in SameWait(h) : chResume[g].pc = "done")
        => \E g \in SameWait(h) :
              NotifiedBy(g, chResume[h].messageId, chResume[h].previousMessageId)

\* trackedNodes never loses a node or a credential type in a step.
TrackingGrows ==
    \A n \in DOMAIN stTracked :
        /\ n \in DOMAIN stTracked'
        /\ stTracked[n] \subseteq stTracked'[n]

\* Every tracked node that exists and is enabled has its entry in
\* nodeSetupStates, with a requirement for each tracked credential type.
TrackedNodesShown ==
    \A n \in DOMAIN stTracked :
        (stNodes[n].exists /\ ~stNodes[n].disabled) =>
            \E i \in DOMAIN NodeSetupStates(stNodes, stTracked) :
                LET st == NodeSetupStates(stNodes, stTracked)[i]
                IN  /\ st.node = n
                    /\ \A t \in stTracked[n] :
                          \E r \in st.credentialRequirements : r.credentialType = t

\* C6: tracking only grows (no change of issues or credentials, no setCredential
\* or unsetCredential removes a recorded node or type), so a tracked node that
\* exists and is enabled keeps its entry and requirements in nodeSetupStates.
C6_TrackingOnlyGrows == [][TrackingGrows]_vars /\ []TrackedNodesShown

\* A node whose issue on apiA was recorded, now resolved with a credential set,
\* still shown (and complete).
C6_Witness ==
    \E n \in NodeIds :
        /\ n \in DOMAIN stTracked /\ "apiA" \in stTracked[n]
        /\ stNodes[n].exists /\ ~stNodes[n].disabled
        /\ stNodes[n].issues = {} /\ "apiA" \in stNodes[n].creds
        /\ \E i \in DOMAIN NodeSetupStates(stNodes, stTracked) :
              NodeSetupStates(stNodes, stTracked)[i].isComplete

\* The rows in the result of the getEvents call.
ResultRows == {auCall.result[i] : i \in DOMAIN auCall.result}

\* C7: after is an inclusive lower bound and before an inclusive upper bound on
\* the timestamp of the events getEvents returns.
C7_InclusiveBounds ==
    auCall.made =>
        \A r \in auRows :
            r \in ResultRows <=>
                /\ Truthy(auCall.filter.eventName) => r.eventName = auCall.filter.eventName.value
                /\ Truthy(auCall.filter.userId) => r.userId = auCall.filter.userId.value
                /\ auCall.filter.after.set => r.timestamp >= auCall.filter.after.value
                /\ auCall.filter.before.set => r.timestamp <= auCall.filter.before.value

\* C8: every getEvents query asks for at most 50 rows ordered by timestamp
\* descending, and its where clause has a key only for a filter that was given
\* (and one for every non-empty filter); with no filter it is the empty object.
C8_QueryShape ==
    auCall.made =>
        LET f == auCall.filter
            w == auCall.options.where
        IN  /\ auCall.options.take = 50
            /\ auCall.options.order = [timestamp |-> "DESC"]
            /\ DOMAIN w \subseteq {"eventName", "userId", "timestamp"}
            /\ "eventName" \in DOMAIN w => f.eventName.set /\ w["eventName"] = Equal(f.eventName.value)
            /\ "userId" \in DOMAIN w => f.userId.set /\ w["userId"] = Equal(f.userId.value)
            /\ "timestamp" \in DOMAIN w => f.after.set \/ f.before.set
            /\ Truthy(f.eventName) => "eventName" \in DOMAIN w
            /\ Truthy(f.userId) => "userId" \in DOMAIN w
            /\ (f.after.set \/ f.before.set) => "timestamp" \in DOMAIN w
            /\ (~f.eventName.set /\ ~f.userId.set /\ ~f.after.set /\ ~f.before.set) =>
                  DOMAIN w = {}

\* A call with no filter at all on a table that holds rows.
C8_Witness ==
    /\ auCall.made
    /\ auCall.filter = [eventName |-> Unset(""), userId |-> Unset(""),
                        after |-> Unset(0), before |-> Unset(0)]
    /\ DOMAIN auCall.options.where = {}
    /\ Len(auCall.result) = MaxRows

\* The events added since the last drain of a call log.
RECURSIVE SinceLastDrain(_)
SinceLastDrain(log) ==
    IF log = <<>> THEN <<>>
    ELSE IF log[Len(log)].call = "drain" THEN <<>>
    ELSE SinceLastDrain(SubSeq(log, 1, Len(log) - 1)) \o log[Len(log)].events

\* What each drain of a call log has to return: the events added since the
\* drain before it.
RECURSIVE ExpectedDrains(_)
ExpectedDrains(log) ==
    IF log = <<>> THEN <<>>
    ELSE LET before == SubSeq(log, 1, Len(log) - 1)
         IN  IF log[Len(log)].call = "drain"
             THEN Append(ExpectedDrains(before), SinceLastDrain(before))
             ELSE ExpectedDrains(before)

\* All drained events, in the order they were returned.
RECURSIVE Flatten(_)
Flatten(seqs) ==
    IF seqs = <<>> THEN <<>> ELSE Flatten(SubSeq(seqs, 1, Len(seqs) - 1)) \o seqs[Len(seqs)]

\* C9: each drain returns exactly the events added since the previous drain, in
\* insertion order, and leaves the buffer empty; every added event is returned by
\* exactly one drain or still buffered; a drain right after a drain returns <<>>.
C9_DrainExactlyOnce ==
    /\ coDrains = ExpectedDrains(coLog)
    /\ coCollected = SinceLastDrain(coLog)
    /\ Flatten(coDrains) \o coCollected = AddedIn(coLog)
    /\ \A i, j \in DOMAIN AddedIn(coLog) : i # j => AddedIn(coLog)[i] # AddedIn(coLog)[j]
    /\ (coLog # <<>> /\ coLog[Len(coLog)].call = "drain") => coCollected = <<>>
    /\ (Len(coLog) >= 2 /\ coLog[Len(coLog)].call = "drain"
        /\ coLog[Len(coLog) - 1].call = "drain") => coDrains[Len(coDrains)] = <<>>

\* Two batches drained together, then a drain that returns nothing.
C9_Witness ==
    /\ Len(coDrains) = 2
    /\ Len(coDrains[1]) >= 2
    /\ coDrains[2] = <<>>
    /\ Len(coLog) = 4
    /\ coLog[1].call = "addEvents" /\ coLog[1].events # <<>>
    /\ coLog[2].call = "addEvents" /\ coLog[2].events # <<>>

\* The 0-based index of a file name among the sorted JSON files.
IndexOfFile(name) ==
    (CHOOSE k \in DOMAIN pxRun.jsonFiles : pxRun.jsonFiles[k] = name) - 1

\* C10: with sequentialMatching the expectation of the i-th JSON file (0-based,
\* sorted by name) gets priority N - i and times {remainingTimes: 1, unlimited:
\* false}; so the loaded priorities are distinct and strictly decreasing in file
\* order, also when files are skipped, and each expectation matches once.
C10_SequentialPriorities ==
    (pxRun.pc \in {"loop", "done"} /\ pxOpts.sequentialMatching) =>
        LET exps == pxRun.expectations
            n == Cardinality({f \in pxDir : f.json})
        IN  /\ \A k \in DOMAIN exps :
                  /\ exps[k].priority = n - IndexOfFile(exps[k].file)
                  /\ exps[k].priority >= 1
                  /\ exps[k].times = [remainingTimes |-> 1, unlimited |-> FALSE]
            /\ \A k, l \in DOMAIN exps :
                  k < l => /\ exps[k].file < exps[l].file
                           /\ exps[k].priority > exps[l].priority
            /\ pxRun.pc = "done" => pxLoaded = exps

\* Three JSON files loaded with sequentialMatching, the middle one skipped.
C10_Witness ==
    /\ pxOpts.sequentialMatching
    /\ pxRun.pc = "done"
    /\ Len(pxRun.jsonFiles) = 3
    /\ Len(pxLoaded) = 2
    /\ pxLoaded[1].priority = 3
    /\ pxLoaded[2].priority = 1

\* What a settled withTimeout call must look like.
TimeoutOutcomeRight(c) ==
    LET call == wtCalls[c]
        ms == call.timeoutMs
    IN  /\ ms.type # "number" =>
            /\ call.timer = "none"
            /\ call.promise # "pending"
            /\ call.outcome = [kind |-> IF call.promise = "fulfilled" THEN "value"
                                        ELSE "error", ms |-> 0, label |-> c]
        /\ (ms.type = "number" /\ (~ms.finite \/ ms.v <= 0)) =>
            /\ call.timer = "none"
            /\ call.outcome = [kind |-> "invalidTimeoutMs", ms |-> ms.v, label |-> c]
        /\ (ms.type = "number" /\ ms.finite /\ ms.v > 0) =>
            /\ call.first = "promise" =>
                  /\ call.promise # "pending"
                  /\ call.outcome.kind =
                        IF call.promise = "fulfilled" THEN "value" ELSE "error"
            /\ call.first = "timer" =>
                  call.outcome = [kind |-> "timedOut", ms |-> ms.v, label |-> c]
            /\ call.first \in {"promise", "timer"}
        /\ call.timer # "pending"

\* A step of withTimeout itself leaves the promise as it is, and a promise only
\* goes from pending to fulfilled or rejected.
TimeoutLeavesWork(c) ==
    /\ wtCalls'[c].pc # wtCalls[c].pc => wtCalls'[c].promise = wtCalls[c].promise
    /\ wtCalls'[c].promise # wtCalls[c].promise =>
          /\ wtCalls[c].promise = "pending"
          /\ wtCalls'[c].promise \in {"fulfilled", "rejected"}

\* A call that is not over has no outcome yet; an invalid timeoutMs is thrown
\* at the call, whether or not the promise has settled.
TimeoutInFlight(c) ==
    LET call == wtCalls[c]
    IN  /\ call.outcome = NoResult
        /\ call.pc = "awaitPromise" => call.timer = "none"

\* C11: withTimeout with a timeoutMs that is not a number gives the promise's
\* outcome and creates no timer; a timeoutMs that is not finite or <= 0 throws
\* 'Invalid timeoutMs' without awaiting the promise; otherwise the outcome is
\* that of whichever of the promise and the timer settles first; no timer is
\* pending once withTimeout has settled, and a timeout does not touch the work.
C11_WithTimeout ==
    /\ [](\A c \in TimeoutCalls :
            IF wtCalls[c].pc = "done" THEN TimeoutOutcomeRight(c)
            ELSE TimeoutInFlight(c))
    /\ [][\A c \in TimeoutCalls : TimeoutLeavesWork(c)]_vars

\* One call timed out while its promise is still pending, and another call was
\* won by its promise and cleared its timer before it fired.
C11_Witness ==
    \E c, d \in TimeoutCalls :
        /\ wtCalls[c].pc = "done"
        /\ wtCalls[c].outcome.kind = "timedOut"
        /\ wtCalls[c].promise = "pending"
        /\ wtCalls[c].timer = "fired"
        /\ wtCalls[d].pc = "done"
        /\ wtCalls[d].outcome.kind = "value"
        /\ wtCalls[d].timer = "cleared"

\* Only numbers, expression strings and objects of these, at every depth.
RECURSIVE OnlySynchable(_)
OnlySynchable(f) ==
    \A k \in DOMAIN f :
        \/ f[k].t \in {"number", "expression"}
        \/ f[k].t = "object" /\ OnlySynchable(f[k].v)

RECURSIVE MadeOfPlainValues(_)
MadeOfPlainValues(f) ==
    \A k \in DOMAIN f :
        \/ f[k].t \in {"number", "expression", "string"}
        \/ f[k].t = "object" /\ MadeOfPlainValues(f[k].v)

\* merged has the numbers and expressions of remote, the local fields remote
\* omits, and no boolean or null that local did not have, at every depth.
RECURSIVE MergedRight(_, _, _)
MergedRight(local, remote, merged) ==
    /\ DOMAIN merged \subseteq DOMAIN local \cup DOMAIN remote
    /\ \A k \in DOMAIN local \cup DOMAIN remote :
          IF k \notin DOMAIN remote
          THEN k \in DOMAIN merged /\ merged[k] = local[k]
          ELSE IF remote[k].t \in {"number", "expression"}
          THEN k \in DOMAIN merged /\ merged[k] = remote[k]
          ELSE IF remote[k].t \in {"boolean", "null"}
          THEN IF k \in DOMAIN local
               THEN k \in DOMAIN merged /\ merged[k] = local[k]
               ELSE k \notin DOMAIN merged
          ELSE IF remote[k].t = "object"
          THEN /\ k \in DOMAIN merged
               /\ merged[k].t = "object"
               /\ MergedRight(IF k \in DOMAIN local /\ local[k].t = "object"
                              THEN local[k].v ELSE <<>>,
                              remote[k].v, merged[k].v)
          ELSE TRUE

\* An import right after this instance's export leaves the local data as it was.
ImportRoundTrip ==
    (scPhase = "exported" /\ scPhase' = "imported" /\ MadeOfPlainValues(scLocal))
        => scLocal' = scLocal

\* Every import merges as MergedRight says.
ImportMergesRight ==
    (scPhase \in {"exported", "changed"} /\ scPhase' = "imported")
        => MergedRight(scLocal, scRemote, scLocal')

\* C13: export followed by import gives back the local data d, for d made of
\* numbers, expression strings, plain strings and nested objects of these; in
\* general the merge takes numbers and expressions from remote, keeps every
\* local field that remote omits and never adds a boolean or null from remote.
C13_MergeRoundTrip == [][ImportRoundTrip /\ ImportMergesRight]_vars

\* An import after an export of data with a top-level secret, and a nested
\* object holding a secret and a number.
C13_Witness ==
    /\ scPhase = "imported"
    /\ scRemote = [auth |-> ObjectValue([port |-> [t |-> "number", v |-> 1]])]
    /\ scLocal = [host |-> StringValue,
                  auth |-> ObjectValue([apiKey |-> StringValue,
                                        port |-> [t |-> "number", v |-> 1]])]

====
